---------------------------- MODULE Spec2Model ----------------------------
(***************************************************************************)
(* The Vectara vector-store adapter of langchain/vectorstores/vectara.py:  *)
(* add_texts with its index / delete / re-index conflict path, the two     *)
(* private request helpers _index_doc and _delete_doc, and the two search  *)
(* operations.  The remote service is an environment: every request gets   *)
(* one of the answers the HTTP API can give, chosen nondeterministically.  *)
(***************************************************************************)
EXTENDS Integers, Sequences, FiniteSets, TLC

(***************************************************************************)
(* Bounds of the model.                                                    *)
(***************************************************************************)
MaxTexts == 2

MaxHits == 2

(***************************************************************************)
(* Inputs.                                                                 *)
(***************************************************************************)
Texts == {"hello world", "nato"}

Metas == {"{'v': 1}", "{'v': 2}"}

\* metadata = ... else {}           (vectara.py:144)
EmptyMetadata == "{}"

SeqsUpTo(S, n) == UNION {[1..k -> S] : k \in 0..n}

\* metadatas: Optional[List[dict]] = None
NoMetadatas == [given |-> FALSE, list |-> <<>>]

MetadatasInputs ==
    {NoMetadatas} \cup {[given |-> TRUE, list |-> l] : l \in SeqsUpTo(Metas, MaxTexts)}

\* md5(text.encode("utf-8")).hexdigest(), tabulated on Texts
md5hex(text) ==
    CASE text = "hello world" -> "5eb63bbbe01eeed093cb22bb8f5acdc3"
      [] text = "nato"        -> "5a5f1259b4de9208c558125c91ab15c5"

DocIds == {md5hex(t) : t \in Texts}

(***************************************************************************)
(* HTTP responses.  A body either is no JSON at all, or is a JSON object   *)
(* that may hold "status" (with or without "code") and may hold a          *)
(* well-formed "responseSet" with its hits.                                *)
(***************************************************************************)
Body(json, hasStatus, hasCode, code, hasResponseSet, hits) ==
    [json |-> json, hasStatus |-> hasStatus, hasCode |-> hasCode, code |-> code,
     hasResponseSet |-> hasResponseSet, hits |-> hits]

NotJson == Body(FALSE, FALSE, FALSE, "", FALSE, <<>>)

NoStatus == Body(TRUE, FALSE, FALSE, "", FALSE, <<>>)

StatusNoCode == Body(TRUE, TRUE, FALSE, "", FALSE, <<>>)

StatusCode(c) == Body(TRUE, TRUE, TRUE, c, FALSE, <<>>)

IndexBodies ==
    {NotJson, NoStatus, StatusNoCode, StatusCode("OK"), StatusCode("ALREADY_EXISTS"),
     StatusCode("INVALID_ARGUMENT")}

\* A request whose connection failed has no response: session.post raises.
Response(transport, status, body) ==
    [transport |-> transport, status |-> status, body |-> body]

NoResponse == Response(FALSE, 0, NotJson)

(***************************************************************************)
(* The remote corpus: for every document id the metadata of its live       *)
(* documents.  The service keeps ids unique: it answers a conflict to an   *)
(* index request for an id that is live and stores nothing.  A request     *)
(* whose connection fails may or may not have been carried out.            *)
(***************************************************************************)
EmptyCorpus == [d \in DocIds |-> <<>>]

\* POST /v1/index: the answers the service can give and the corpus each leaves.
RemoteIndex(c, doc_id, metadata) ==
    LET stored == [c EXCEPT ![doc_id] = Append(@, metadata)]
        live == c[doc_id] # <<>>
    IN    {[resp |-> NoResponse, cls |-> "lost", corpus |-> c]}
     \cup {[resp |-> NoResponse, cls |-> "lost",
            corpus |-> IF live THEN c ELSE stored]}
     \cup {[resp |-> Response(TRUE, 200, b), cls |-> "accepted", corpus |-> stored] :
              b \in IF live THEN {} ELSE {NoStatus, StatusCode("OK")}}
     \cup {[resp |-> Response(TRUE, 409, b), cls |-> "conflict", corpus |-> c] :
              b \in IF live THEN IndexBodies ELSE {}}
     \cup {[resp |-> Response(TRUE, 200, StatusCode("ALREADY_EXISTS")),
            cls |-> "conflict", corpus |-> c] : x \in IF live THEN {0} ELSE {}}
     \cup {[resp |-> Response(TRUE, 500, b), cls |-> "error", corpus |-> c] :
              b \in IndexBodies \ {StatusCode("ALREADY_EXISTS")}}

\* POST /v1/delete-doc: the answers the service can give and the corpus each leaves.
RemoteDelete(c, doc_id) ==
    LET removed == [c EXCEPT ![doc_id] = <<>>]
    IN    {[resp |-> NoResponse, cls |-> "lost", corpus |-> c],
           [resp |-> NoResponse, cls |-> "lost", corpus |-> removed],
           [resp |-> Response(TRUE, 200, NoStatus), cls |-> "accepted", corpus |-> removed],
           [resp |-> Response(TRUE, 404, NotJson), cls |-> "error", corpus |-> c],
           [resp |-> Response(TRUE, 500, NotJson), cls |-> "error", corpus |-> c]}

(***************************************************************************)
(* Results of a call: it raises, or returns a bool, or returns a list.     *)
(***************************************************************************)
Raise == [kind |-> "raise", ret |-> FALSE, list |-> <<>>]

ReturnBool(b) == [kind |-> "bool", ret |-> b, list |-> <<>>]

ReturnList(l) == [kind |-> "list", ret |-> FALSE, list |-> l]

\* Vectara._delete_doc
_delete_doc(resp) ==
    IF ~resp.transport THEN Raise
    ELSE IF resp.status # 200 THEN ReturnBool(FALSE)
    ELSE ReturnBool(TRUE)

\* Vectara._index_doc: response.json() and result["status"]["code"] are
\* evaluated before the status code is looked at.
_index_doc(resp) ==
    IF ~resp.transport THEN Raise
    ELSE IF ~resp.body.json THEN Raise
    ELSE IF resp.body.hasStatus /\ ~resp.body.hasCode THEN Raise
    ELSE LET status_str == IF resp.body.hasStatus THEN resp.body.code ELSE ""
         IN  IF resp.status = 409
                \/ (status_str # "" /\ status_str = "ALREADY_EXISTS")
             THEN ReturnBool(FALSE)
             ELSE ReturnBool(TRUE)

(***************************************************************************)
(* Search: the hits of a query response and the Documents built of them.   *)
(***************************************************************************)
Pairs ==
    {[name |-> "lang", value |-> "eng"], [name |-> "len", value |-> "11"],
     [name |-> "offset", value |-> "0"], [name |-> "title", value |-> "v1"],
     [name |-> "title", value |-> "v2"]}

\* the lists of at most two pairs, but for those of two reserved names
MetadataLists ==
    {<<>>} \cup {<<p>> : p \in Pairs}
           \cup {<<p, q>> : p \in Pairs, q \in {r \in Pairs : r.name = "title"}}
           \cup {<<p, q>> : p \in {r \in Pairs : r.name = "title"}, q \in Pairs}

Hits ==
    {[text |-> ts[1], score |-> ts[2], metadata |-> m] :
        ts \in {<<"hello world", 2>>, <<"nato", 1>>}, m \in MetadataLists}

ResponseSet(hits) == Body(TRUE, FALSE, FALSE, "", TRUE, hits)

QueryBodies(n) == {NotJson, NoStatus} \cup {ResponseSet(h) : h \in SeqsUpTo(Hits, n)}

\* POST /v1/query: the answers the service can give, of at most n hits
RemoteQuery(n) ==
    {NoResponse} \cup {Response(TRUE, st, b) : st \in {200, 404, 500}, b \in QueryBodies(n)}

VectaraDefaultMetadataShort == {"lang", "len"}

\* vectara_default_metadata = ["lang", "len", "offset"]
vectara_default_metadata == {"lang", "len", "offset"}

EmptyDict == [n \in {} |-> ""]

\* {m["name"]: m["value"] for m in x["metadata"] if m["name"] not in
\* vectara_default_metadata}: a later pair of a name replaces an earlier one
RECURSIVE MetadataDict(_)
MetadataDict(ms) ==
    IF ms = <<>> THEN EmptyDict
    ELSE LET m == ms[Len(ms)]
             front == MetadataDict(SubSeq(ms, 1, Len(ms) - 1))
         IN  IF m.name \in vectara_default_metadata
             THEN front
             ELSE (m.name :> m.value) @@ front

\* Document(page_content=x["text"], metadata={...})
Document(x) == [page_content |-> x.text, metadata |-> MetadataDict(x.metadata)]

ResponsesReversed(body) == [k \in 1..Len(body.hits) |-> body.hits[Len(body.hits) + 1 - k]]

\* responses = result["responseSet"][0]["response"]
Responses(body) == body.hits

SearchParsesFirst(resp) ==
    IF ~resp.transport THEN Raise
    ELSE IF ~resp.body.json THEN Raise
    ELSE IF resp.status # 200 THEN ReturnList(<<>>)
    ELSE IF ~resp.body.hasResponseSet THEN Raise
    ELSE LET responses == Responses(resp.body)
         IN  ReturnList([k \in 1..Len(responses) |->
                 [doc |-> Document(responses[k]), score |-> responses[k].score]])

\* Vectara.similarity_search_with_score
similarity_search_with_score(resp) ==
    IF ~resp.transport THEN Raise
    ELSE IF resp.status # 200 THEN ReturnList(<<>>)
    ELSE IF ~resp.body.json THEN Raise
    ELSE IF ~resp.body.hasResponseSet THEN Raise
    ELSE LET responses == Responses(resp.body)
         IN  ReturnList([k \in 1..Len(responses) |->
                 [doc |-> Document(responses[k]), score |-> responses[k].score]])

\* Vectara.similarity_search: [doc for doc, _ in docs_and_scores]
similarity_search(resp) ==
    LET docs_and_scores == similarity_search_with_score(resp)
    IN  IF docs_and_scores.kind = "raise" THEN Raise
        ELSE ReturnList([k \in 1..Len(docs_and_scores.list) |->
                 docs_and_scores.list[k].doc])

(***************************************************************************)
(* State.                                                                  *)
(***************************************************************************)
VARIABLES
    corpus,      \* the remote corpus
    pc,          \* where add_texts stands: idle, loop, conflict, retry, returned, raised
    texts,       \* add_texts' argument texts
    metadatas,   \* add_texts' argument metadatas
    ids,         \* add_texts' local ids
    i,           \* position of the loop (1-based; enumerate counts from 0)
    log,         \* the requests the running call has sent, in order
    result,      \* what add_texts returned
    repeat,      \* the running call has the arguments of the call before it, which returned
    prevResult,  \* what that call returned
    corpus0,     \* the corpus when the running call began
    last         \* the last direct call of an operation: its response and result

vars == <<corpus, pc, texts, metadatas, ids, i, log, result, repeat, prevResult, corpus0, last>>

addVars == <<pc, texts, metadatas, ids, i, log, result, repeat, prevResult, corpus0>>

NoCall == [op |-> "none", resp |-> NoResponse, result |-> Raise]

(***************************************************************************)
(* add_texts.                                                              *)
(***************************************************************************)
AddTextsIdsReversed(ts) == [k \in 1..Len(ts) |-> md5hex(ts[Len(ts) + 1 - k])]

\* ids = [md5(text.encode("utf-8")).hexdigest() for text in texts]
AddTextsIds(ts) == [k \in 1..Len(ts) |-> md5hex(ts[k])]

\* `metadatas[i] if metadatas else {}`: None and [] are both falsy
MetadatasTruthy(ms) == ms.given /\ ms.list # <<>>

\* metadatas[i] raises IndexError past the end of a non-empty list
MetadataRaises(ms, pos) == MetadatasTruthy(ms) /\ pos > Len(ms.list)

MetadataFirst(ms, pos) == IF MetadatasTruthy(ms) THEN ms.list[1] ELSE EmptyMetadata

MetadataOf(ms, pos) == IF MetadatasTruthy(ms) THEN ms.list[pos] ELSE EmptyMetadata

FirstPosSkipsOne == 1 + 1

\* for i, doc in enumerate(texts): the loop starts at the first text
FirstPos == 1

NeedsRetryAlways(succeeded) == TRUE

\* if not succeeded:
NeedsRetry(succeeded) == ~succeeded

AfterDeleteSkipsRetry == "next"

\* self._delete_doc(doc_id) is followed by self._index_doc(doc_id, doc, metadata)
AfterDelete == "retry"

RetStr(r) == IF r.kind = "raise" THEN "raise" ELSE IF r.ret THEN "True" ELSE "False"

Sent(pos, op, out, r) == [pos |-> pos, op |-> op, cls |-> out.cls, ret |-> RetStr(r)]

\* add_texts is entered: line 141 builds ids, the loop starts at the first text
AddTextsCall ==
    /\ pc = "idle"
    /\ \E ts \in SeqsUpTo(Texts, MaxTexts), ms \in MetadatasInputs :
          /\ texts' = ts
          /\ metadatas' = ms
          /\ ids' = AddTextsIds(ts)
    /\ repeat' = FALSE
    /\ prevResult' = <<>>
    /\ i' = FirstPos
    /\ log' = <<>>
    /\ result' = <<>>
    /\ corpus0' = corpus
    /\ pc' = "loop"
    /\ UNCHANGED <<corpus, last>>

\* add_texts is entered once more, with the arguments of the call that just returned
AddTextsCallAgain ==
    /\ pc = "returned"
    /\ ids' = AddTextsIds(texts)
    /\ repeat' = TRUE
    /\ prevResult' = result
    /\ i' = FirstPos
    /\ log' = <<>>
    /\ result' = <<>>
    /\ corpus0' = corpus
    /\ pc' = "loop"
    /\ UNCHANGED <<corpus, texts, metadatas, last>>

\* the caller drops what add_texts returned or raised; only the corpus remains
AddTextsExit ==
    /\ pc \in {"returned", "raised"}
    /\ pc' = "idle"
    /\ texts' = <<>>
    /\ metadatas' = NoMetadatas
    /\ ids' = <<>>
    /\ i' = 1
    /\ log' = <<>>
    /\ result' = <<>>
    /\ repeat' = FALSE
    /\ prevResult' = <<>>
    /\ corpus0' = corpus
    /\ UNCHANGED <<corpus, last>>

\* metadata = metadatas[i] raises IndexError: add_texts is left by the exception
AddTextsIndexError ==
    /\ pc = "loop"
    /\ i <= Len(texts)
    /\ MetadataRaises(metadatas, i)
    /\ pc' = "raised"
    /\ UNCHANGED <<corpus, texts, metadatas, ids, i, log, result, repeat, prevResult, corpus0, last>>

\* succeeded = self._index_doc(doc_id, doc, metadata)
AddTextsIndex ==
    /\ pc = "loop"
    /\ i <= Len(texts)
    /\ ~MetadataRaises(metadatas, i)
    /\ \E out \in RemoteIndex(corpus, ids[i], MetadataOf(metadatas, i)) :
          LET r == _index_doc(out.resp)
          IN  /\ corpus' = out.corpus
              /\ log' = Append(log, Sent(i, "index", out, r))
              /\ IF r.kind = "raise"
                    THEN pc' = "raised" /\ i' = i
                    ELSE IF NeedsRetry(r.ret)
                           THEN pc' = "conflict" /\ i' = i
                           ELSE pc' = "loop" /\ i' = i + 1
    /\ UNCHANGED <<texts, metadatas, ids, result, repeat, prevResult, corpus0, last>>

\* self._delete_doc(doc_id): its return value is dropped
AddTextsDelete ==
    /\ pc = "conflict"
    /\ \E out \in RemoteDelete(corpus, ids[i]) :
          LET r == _delete_doc(out.resp)
          IN  /\ corpus' = out.corpus
              /\ log' = Append(log, Sent(i, "delete", out, r))
              /\ IF r.kind = "raise"
                    THEN pc' = "raised" /\ i' = i
                    ELSE IF AfterDelete = "retry"
                           THEN pc' = "retry" /\ i' = i
                           ELSE pc' = "loop" /\ i' = i + 1
    /\ UNCHANGED <<texts, metadatas, ids, result, repeat, prevResult, corpus0, last>>

\* self._index_doc(doc_id, doc, metadata) once more: its return value is dropped
AddTextsRetry ==
    /\ pc = "retry"
    /\ \E out \in RemoteIndex(corpus, ids[i], MetadataOf(metadatas, i)) :
          LET r == _index_doc(out.resp)
          IN  /\ corpus' = out.corpus
              /\ log' = Append(log, Sent(i, "index", out, r))
              /\ IF r.kind = "raise"
                    THEN pc' = "raised" /\ i' = i
                    ELSE pc' = "loop" /\ i' = i + 1
    /\ UNCHANGED <<texts, metadatas, ids, result, repeat, prevResult, corpus0, last>>

\* return ids
AddTextsReturn ==
    /\ pc = "loop"
    /\ i > Len(texts)
    /\ result' = ids
    /\ pc' = "returned"
    /\ UNCHANGED <<corpus, texts, metadatas, ids, i, log, repeat, prevResult, corpus0, last>>

(***************************************************************************)
(* The operations called on their own.                                     *)
(***************************************************************************)
\* Vectara._index_doc(doc_id, text, metadata)
IndexDoc ==
    /\ pc = "idle"
    /\ \E d \in DocIds, m \in Metas \cup {EmptyMetadata} :
          \E out \in RemoteIndex(corpus, d, m) :
              /\ corpus' = out.corpus
              /\ last' = [op |-> "_index_doc", resp |-> out.resp,
                          result |-> _index_doc(out.resp)]
    /\ UNCHANGED addVars

\* Vectara._delete_doc(doc_id)
DeleteDoc ==
    /\ pc = "idle"
    /\ \E d \in DocIds :
          \E out \in RemoteDelete(corpus, d) :
              /\ corpus' = out.corpus
              /\ last' = [op |-> "_delete_doc", resp |-> out.resp,
                          result |-> _delete_doc(out.resp)]
    /\ UNCHANGED addVars

\* Vectara.similarity_search_with_score(query, k, alpha, filter)
SimilaritySearchWithScore ==
    /\ pc = "idle"
    /\ last.op = "none"
    /\ \E resp \in RemoteQuery(MaxHits) :
          last' = [op |-> "similarity_search_with_score", resp |-> resp,
                   result |-> similarity_search_with_score(resp)]
    /\ UNCHANGED <<corpus, addVars>>

\* Vectara.similarity_search(query, k, alpha, filter)
SimilaritySearch ==
    /\ pc = "idle"
    /\ last.op = "none"
    /\ \E resp \in RemoteQuery(MaxHits) :
          last' = [op |-> "similarity_search", resp |-> resp,
                   result |-> similarity_search(resp)]
    /\ UNCHANGED <<corpus, addVars>>

Init ==
    /\ corpus = EmptyCorpus
    /\ pc = "idle"
    /\ texts = <<>>
    /\ metadatas = NoMetadatas
    /\ ids = <<>>
    /\ i = 1
    /\ log = <<>>
    /\ result = <<>>
    /\ repeat = FALSE
    /\ prevResult = <<>>
    /\ corpus0 = corpus
    /\ last = NoCall

Next ==
    \/ AddTextsCall
    \/ AddTextsCallAgain
    \/ AddTextsExit
    \/ AddTextsIndexError
    \/ AddTextsIndex
    \/ AddTextsDelete
    \/ AddTextsRetry
    \/ AddTextsReturn

\* add_texts, called any number of times
Spec == Init /\ [][Next]_vars

NextSearch ==
    \/ SimilaritySearchWithScore
    \/ SimilaritySearch

\* the two search operations
SpecSearch == Init /\ [][NextSearch]_vars

NextOps ==
    \/ IndexDoc
    \/ DeleteDoc
    \/ SimilaritySearchWithScore
    \/ SimilaritySearch

\* the request helpers and the search operations, each called on its own
SpecOps == Init /\ [][NextOps]_vars

(***************************************************************************)
(* What the claims speak of.                                               *)
(***************************************************************************)
Positions == 1..Len(texts)

\* the requests sent for the text at position p, in order
PosLog(p) == SelectSeq(log, LAMBDA e : e.pos = p)

\* the index requests sent for document id d, in order
IndexLog(d) == SelectSeq(log, LAMBDA e : e.op = "index" /\ md5hex(texts[e.pos]) = d)

\* exactly one index that reported no conflict, or exactly index, delete, index
\* after an index that reported a conflict
ExactSequence(p) ==
    LET l == PosLog(p)
    IN  \/ Len(l) = 1 /\ l[1].op = "index" /\ l[1].ret = "True"
        \/ /\ Len(l) = 3
           /\ l[1].op = "index" /\ l[1].ret = "False"
           /\ l[2].op = "delete"
           /\ l[3].op = "index"

\* a prefix of index, delete, index, with nothing after an index that reported no conflict
PrefixSequence(p) ==
    LET l == PosLog(p)
    IN  /\ Len(l) <= 3
        /\ \A k \in 1..Len(l) : l[k].op = IF k = 2 THEN "delete" ELSE "index"
        /\ Len(l) >= 2 => l[1].ret = "False"

\* the metadata the caller gave for the text at position p
GivenMetadata(p) ==
    IF metadatas.given /\ metadatas.list # <<>> THEN metadatas.list[p] ELSE EmptyMetadata

\* the last index request for the text at position p was accepted by the service
LastIndexIs(p, classes) ==
    LET l == IndexLog(md5hex(texts[p]))
    IN  l # <<>> /\ l[Len(l)].cls \in classes

\* position p is the last one that holds its text
LastOccurrence(p) == \A q \in Positions : q > p => texts[q] # texts[p]

\* C1 as stated: once add_texts has ended, every input text has had exactly one
\* index request, or exactly index, delete, index after a reported conflict.
C1_EveryTextExact ==
    pc \in {"returned", "raised"} => \A p \in Positions : ExactSequence(p)

\* C1 as amended: the requests for a text are always a prefix of index, delete,
\* index, a delete only follows an index that reported a conflict and there are
\* at most three; a text add_texts is done with has exactly index or exactly
\* index, delete, index; a text behind the loop position has none.
C1_RequestsPerText ==
    \A p \in Positions :
        /\ PrefixSequence(p)
        /\ (p < i => ExactSequence(p))
        /\ (p > i => PosLog(p) = <<>>)

C1_Witness ==
    /\ pc = "returned"
    /\ \E p, q \in Positions : Len(PosLog(p)) = 3 /\ Len(PosLog(q)) = 1

\* C2 as stated: after a second call with the arguments of the first, the ids
\* are those of the first call and every id has exactly one live document.
C2_ExactlyOneLive ==
    (pc = "returned" /\ repeat) =>
        /\ result = prevResult
        /\ \A p \in Positions : Len(corpus[md5hex(texts[p])]) = 1

\* C2 as amended: after a second call with the arguments of the first, the ids
\* are those of the first call, no id has two live documents, and an id has
\* exactly one when the service accepted the last index request for it or
\* answered it with a conflict.
C2_AtMostOneLive ==
    (pc = "returned" /\ repeat) =>
        /\ result = prevResult
        /\ \A p \in Positions :
              /\ Len(corpus[md5hex(texts[p])]) <= 1
              /\ LastIndexIs(p, {"accepted", "conflict"})
                    => Len(corpus[md5hex(texts[p])]) = 1

C2_Witness ==
    /\ pc = "returned"
    /\ repeat
    /\ \E p \in Positions :
          /\ Len(PosLog(p)) = 3
          /\ LastIndexIs(p, {"accepted"})
          /\ Len(corpus[md5hex(texts[p])]) = 1

\* C3 as stated: a text whose id was live with other metadata when add_texts
\* was called carries the metadata of this call once add_texts has returned.
C3_LastWriteWins ==
    pc = "returned" =>
        \A p \in Positions :
            ( /\ LastOccurrence(p)
              /\ corpus0[md5hex(texts[p])] # <<>>
              /\ corpus0[md5hex(texts[p])] # <<GivenMetadata(p)>> )
            => corpus[md5hex(texts[p])] = <<GivenMetadata(p)>>

\* C3 as amended: once add_texts has returned, a text whose last index request
\* the service accepted is the one live document of its id and carries the
\* metadata of this call.
C3_LastAcceptedWins ==
    pc = "returned" =>
        \A p \in Positions :
            (LastOccurrence(p) /\ LastIndexIs(p, {"accepted"}))
            => corpus[md5hex(texts[p])] = <<GivenMetadata(p)>>

C3_Witness ==
    /\ pc = "returned"
    /\ \E p \in Positions :
          /\ LastOccurrence(p)
          /\ corpus0[md5hex(texts[p])] # <<>>
          /\ corpus0[md5hex(texts[p])] # <<GivenMetadata(p)>>
          /\ LastIndexIs(p, {"accepted"})
          /\ corpus[md5hex(texts[p])] = <<GivenMetadata(p)>>

IsConflict(resp) ==
    resp.status = 409 \/ (resp.body.hasCode /\ resp.body.code = "ALREADY_EXISTS")

\* the response is a failed interaction: no response at all, or a status other than 200
Failed(resp) == ~resp.transport \/ resp.status # 200

\* the response is a 200 whose body holds a well-formed responseSet
GoodQuery(resp) ==
    resp.transport /\ resp.status = 200 /\ resp.body.json /\ resp.body.hasResponseSet

Reserved == {"lang", "len", "offset"}

Names(ms) == {ms[j].name : j \in 1..Len(ms)}

\* the value of the last pair of list ms that has name n
LastValue(ms, n) ==
    LET js == {j \in 1..Len(ms) : ms[j].name = n}
    IN  ms[CHOOSE j \in js : \A h \in js : h <= j].value

\* the Documents a search returned, with or without their scores
ReturnedDocs ==
    IF last.op = "similarity_search_with_score"
    THEN [k \in 1..Len(last.result.list) |-> last.result.list[k].doc]
    ELSE last.result.list

\* C5 as stated: for every response _index_doc returns, and it returns False
\* exactly when the status is 409 or the body's status code is ALREADY_EXISTS.
C5_FalseExactlyOnConflict ==
    (last.op = "_index_doc" /\ last.resp.transport) =>
        /\ last.result.kind = "bool"
        /\ last.result.ret = ~IsConflict(last.resp)

\* C6 as stated: a failed interaction of _index_doc, _delete_doc or
\* similarity_search_with_score does not raise; it shows as False, or as an
\* empty list.
C6_FailureNeverRaises ==
    (last.op \in {"_index_doc", "_delete_doc", "similarity_search_with_score"}
     /\ Failed(last.resp)) =>
        IF last.op = "similarity_search_with_score"
        THEN last.result = ReturnList(<<>>)
        ELSE last.result = ReturnBool(FALSE)

\* C7: on every status other than 200 similarity_search_with_score returns the
\* empty list, whatever the body is, which is what it returns on a 200 with no hits.
C7_Non200IsEmpty ==
    (last.op = "similarity_search_with_score"
     /\ last.resp.transport /\ last.resp.status # 200) =>
        /\ last.result = ReturnList(<<>>)
        /\ last.result =
              similarity_search_with_score(Response(TRUE, 200, ResponseSet(<<>>)))

C7_Witness ==
    /\ last.op = "similarity_search_with_score"
    /\ last.resp.transport
    /\ last.resp.status = 500
    /\ last.resp.body = NotJson
    /\ last.result = ReturnList(<<>>)

\* C8 as stated: the metadata of a Document has no reserved key and has every
\* other (name, value) pair of its hit.
C8_EveryPairKept ==
    (last.op \in {"similarity_search_with_score", "similarity_search"}
     /\ GoodQuery(last.resp)) =>
        \A k \in 1..Len(last.resp.body.hits) :
            LET ms == last.resp.body.hits[k].metadata
                d == ReturnedDocs[k].metadata
            IN  /\ DOMAIN d \cap Reserved = {}
                /\ \A j \in 1..Len(ms) :
                      ms[j].name \notin Reserved =>
                          ms[j].name \in DOMAIN d /\ d[ms[j].name] = ms[j].value

\* C8 as amended: the keys of a Document's metadata are the names of its hit
\* other than lang, len and offset, and each key has the value of the hit's
\* last pair of that name.
C8_LastPairKept ==
    (last.op \in {"similarity_search_with_score", "similarity_search"}
     /\ GoodQuery(last.resp)) =>
        \A k \in 1..Len(last.resp.body.hits) :
            LET ms == last.resp.body.hits[k].metadata
                d == ReturnedDocs[k].metadata
            IN  /\ DOMAIN d = Names(ms) \ Reserved
                /\ \A n \in DOMAIN d : d[n] = LastValue(ms, n)

C8_Witness ==
    /\ last.op = "similarity_search_with_score"
    /\ GoodQuery(last.resp)
    /\ Len(last.resp.body.hits) = 2
    /\ last.resp.body.hits[1].metadata =
          <<[name |-> "offset", value |-> "0"], [name |-> "title", value |-> "v1"]>>
    /\ last.resp.body.hits[2].metadata =
          <<[name |-> "title", value |-> "v1"], [name |-> "title", value |-> "v2"]>>
    /\ DOMAIN last.result.list[1].doc.metadata = {"title"}
    /\ last.result.list[1].doc.metadata["title"] = "v1"
    /\ last.result.list[2].doc.metadata["title"] = "v2"

\* C9: on a 200 with n hits similarity_search_with_score returns n pairs, the
\* k-th made of the k-th hit's text and score, and similarity_search returns
\* the Documents of those pairs in the same order.
C9_HitsInOrder ==
    (last.op \in {"similarity_search_with_score", "similarity_search"}
     /\ GoodQuery(last.resp)) =>
        LET hits == last.resp.body.hits
        IN  /\ last.result.kind = "list"
            /\ Len(last.result.list) = Len(hits)
            /\ \A k \in 1..Len(hits) :
                  /\ ReturnedDocs[k].page_content = hits[k].text
                  /\ DOMAIN ReturnedDocs[k].metadata = Names(hits[k].metadata) \ Reserved
                  /\ last.op = "similarity_search_with_score"
                        => last.result.list[k].score = hits[k].score
                  /\ last.op = "similarity_search"
                        => last.result.list[k] =
                             similarity_search_with_score(last.resp).list[k].doc

C9_Witness ==
    /\ last.op = "similarity_search"
    /\ GoodQuery(last.resp)
    /\ Len(last.resp.body.hits) = 2
    /\ last.resp.body.hits[1].score < last.resp.body.hits[2].score
    /\ Len(last.result.list) = 2
    /\ last.result.list[1].page_content = "nato"
    /\ last.result.list[2].page_content = "hello world"

=============================================================================
